---- MODULE Spec2Model ----
(***************************************************************************)
(* Model of multigit (src/src/main.rs): GitAccountManager provisioning one *)
(* Git identity per setup_account call.  File contents, paths and command  *)
(* arguments are strings, so that format!, PathBuf::join and str::contains *)
(* are computed character by character as the code computes them.          *)
(*                                                                         *)
(* Filesystem operations themselves (create_dir_all, open, write_all) are  *)
(* taken to succeed; the two subprocesses may exit with any status.        *)
(***************************************************************************)
EXTENDS Integers, Sequences, FiniteSets, TLC

VARIABLES
    env_home,   \* value of $HOME, or NoHome when the variable is unset
    pc,         \* position of the program: start, idle, a step, panicked, exited
    home_dir,   \* GitAccountManager.home_dir
    accounts,   \* GitAccountManager.accounts : name -> GitAccount
    fs,         \* regular files on disk : path -> content
    dirs,       \* directories on disk
    call,       \* arguments of the setup_account call in progress
    ssh_key,    \* local ssh_key of setup_account
    err,        \* panic message, "" while none
    disk0,      \* history: disk at program start
    pre,        \* history: disk and registry when the current call began
    procs,      \* history: subprocess invocations, in order
    steps,      \* history: steps performed by the current call, in order
    calls,      \* history: setup_account calls made, in order
    sshLog      \* history: setup_ssh_config invocations, in order

vars == <<env_home, pc, home_dir, accounts, fs, dirs, call, ssh_key, err,
          disk0, pre, procs, steps, calls, sshLog>>

-----------------------------------------------------------------------------
(* Bounds *)

MaxCalls == 2

-----------------------------------------------------------------------------
(* Input domains *)

NoHome == "<unset>"
HomeDir == "/home/u"

Names == {"acc1", "acc2"}
Emails == {"a@example.com", "b@example.com"}
CodebaseDirs == {"/Users/u/Code/acc1/", "Code/acc2", ""}
Hosts == {"github.com-pers", "github.com-personal"}
ExitCodes == {0, 1}

NoCall == [name |-> "", email |-> "", codebase_dir |-> "", host |-> ""]

EmptyMap == [x \in {} |-> ""]

FreshDisk == [fs |-> EmptyMap, dirs |-> {"/home/u"}]

PopulatedDisk ==
    [fs |-> [p \in {"/home/u/.gitconfig", "/Users/u/Code/acc1/.gitconfig",
                    "/home/u/.ssh/config"} |->
                CASE p = "/home/u/.gitconfig" -> "[core]\n    editor = vi\n"
                  [] p = "/Users/u/Code/acc1/.gitconfig" -> "[user]\n    name = old\n"
                  [] OTHER -> "\nHost github.com-pers\n    HostName github.com\n"],
     dirs |-> {"/home/u", "/home/u/.ssh", "/Users/u/Code/acc1"}]

LongerHostDisk ==
    [fs |-> [p \in {"/home/u/.ssh/config", "/home/u/.ssh/id_ed25519_acc1"} |->
                CASE p = "/home/u/.ssh/config" -> "Host github.com-personal\n    User git\n"
                  [] OTHER -> "old private key"],
     dirs |-> {"/home/u", "/home/u/.ssh"}]

EmptyConfigDisk ==
    [fs |-> [p \in {"/home/u/.ssh/config", "/home/u/.gitconfig"} |-> ""],
     dirs |-> {"/home/u", "/home/u/.ssh"}]

PriorDisks == {FreshDisk, PopulatedDisk, LongerHostDisk, EmptyConfigDisk}

-----------------------------------------------------------------------------
(* Pure helpers *)

\* str::contains : t occurs in s as a contiguous substring
Contains(s, t) ==
    \E i \in 0..(Len(s) - Len(t)) : SubSeq(s, i + 1, i + Len(t)) = t

\* PathBuf::join : an absolute argument replaces the base, otherwise it is
\* pushed after a separator, added only when the base does not end in one
Join(base, p) ==
    IF Len(p) > 0 /\ SubSeq(p, 1, 1) = "/" THEN p
    ELSE IF Len(base) > 0 /\ SubSeq(base, Len(base), Len(base)) # "/"
         THEN base \o "/" \o p
         ELSE base \o p

\* Path::parent of a file path: everything before the last separator
Parent(p) ==
    LET seps == {i \in 1..Len(p) : SubSeq(p, i, i) = "/"}
        last == CHOOSE i \in seps : \A j \in seps : j <= i
    IN IF seps = {} THEN ""
       ELSE IF last = 1 THEN "/"
       ELSE SubSeq(p, 1, last - 1)

\* variant: entry(k).or_insert(v), the first write is kept
InsertKeepFirst(m, k, v) ==
    [x \in DOMAIN m \cup {k} |-> IF x \in DOMAIN m THEN m[x] ELSE v]

\* HashMap::insert
Insert(m, k, v) == [x \in DOMAIN m \cup {k} |-> IF x = k THEN v ELSE m[x]]

\* variant: the file is opened with truncate instead of append
AppendFileTruncating(f, p, s) ==
    [x \in DOMAIN f \cup {p} |-> IF x = p THEN s ELSE f[x]]

\* variant: the block is appended only when the file does not hold it yet
AppendFileDeduplicating(f, p, s) ==
    [x \in DOMAIN f \cup {p} |->
        IF x = p
        THEN (IF p \notin DOMAIN f THEN s
              ELSE IF \E i \in 0..(Len(f[p]) - Len(s)) :
                         SubSeq(f[p], i + 1, i + Len(s)) = s
                   THEN f[p] ELSE f[p] \o s)
        ELSE f[x]]

\* OpenOptions::new().create(true).append(true).open(p) ; write_all(s)
AppendFile(f, p, s) ==
    [x \in DOMAIN f \cup {p} |->
        IF x = p THEN (IF p \in DOMAIN f THEN f[p] ELSE "") \o s ELSE f[x]]

\* File::create-like write by the key generator: replaces the content
WriteFile(f, p, s) == [x \in DOMAIN f \cup {p} |-> IF x = p THEN s ELSE f[x]]

\* content of a file as an optional value: <<>> when the file is missing
ReadOpt(f, p) == IF p \in DOMAIN f THEN <<f[p]>> ELSE <<>>

-----------------------------------------------------------------------------
(* Strings built by the code *)

KeyFile(home, name) == Join(Join(home, ".ssh"), "id_ed25519_" \o name)

LocalConfigContent(account) ==
    "[url \"git@github.com-" \o account.name \o ":\"]\n"
    \o "    insteadOf = git@github.com:\n"
    \o "[user]\n"
    \o "    name = " \o account.name \o "\n"
    \o "    email = " \o account.email \o "\"\n"

IncludeIfContent(codebase_path_str, global_gitconfig_path_str) ==
    "[includeIf \"gitdir/i:" \o codebase_path_str \o "\"]\n"
    \o "    path = " \o global_gitconfig_path_str \o "\n\n"

SshConfigContent(host, key) ==
    "\nHost " \o host \o "\n"
    \o "    HostName github.com\n"
    \o "    User git\n"
    \o "    AddKeysToAgent yes\n"
    \o "    UseKeychain yes\n"
    \o "    IdentityFile " \o key \o "\n"

GlobalGitconfigPath(home) == Join(home, ".gitconfig")
SshConfigPath(home) == Join(home, ".ssh/config")
LocalGitconfigPath(account) == Join(account.codebase_dir_path, ".gitconfig")

\* variant: the guard looks for a lower-case keyword
HostPresentLowerCase(existing_config, host) ==
    Contains(existing_config, "host " \o host)

\* the guard of setup_ssh_config
HostPresent(existing_config, host) == Contains(existing_config, "Host " \o host)

\* variant: the exit status of ssh-keygen is not examined
KeygenFailedIgnored(status) == FALSE

\* generate_ssh_key: !output.status.success()
KeygenFailed(status) == status # 0

\* variant: the exit status of ssh-add is not examined
AgentFailedIgnored(status) == FALSE

\* add_ssh_agent: !output.status.success()
AgentFailed(status) == status # 0

\* variant: the account is recorded before the key is handed to the agent
SetupAccountStepsAgentLate ==
    <<"generate_ssh_key", "add_account", "add_ssh_agent",
      "setup_local_gitconfig", "setup_global_gitconfig", "setup_ssh_config">>

\* the order in which setup_account (through associate_account_with_dir)
\* performs its steps
SetupAccountSteps ==
    <<"generate_ssh_key", "add_ssh_agent", "add_account",
      "setup_local_gitconfig", "setup_global_gitconfig", "setup_ssh_config">>

StepAfter(s) ==
    LET i == CHOOSE k \in 1..Len(SetupAccountSteps) : SetupAccountSteps[k] = s
    IN IF i = Len(SetupAccountSteps) THEN "idle" ELSE SetupAccountSteps[i + 1]

-----------------------------------------------------------------------------
(* Initial state *)

Init ==
    /\ env_home \in {NoHome, HomeDir}
    /\ pc = "start"
    /\ home_dir = ""
    /\ accounts = EmptyMap
    /\ disk0 \in PriorDisks
    /\ fs = disk0.fs
    /\ dirs = disk0.dirs
    /\ call = NoCall
    /\ ssh_key = ""
    /\ err = ""
    /\ pre = [fs |-> disk0.fs, accounts |-> EmptyMap]
    /\ procs = <<>>
    /\ steps = <<>>
    /\ calls = <<>>
    /\ sshLog = <<>>

-----------------------------------------------------------------------------
(* Actions *)

Panic(msg) ==
    /\ pc' = "panicked"
    /\ err' = msg

\* main, $HOME set: construct the manager
MainNew ==
    /\ pc = "start"
    /\ env_home # NoHome
    /\ home_dir' = env_home
    /\ accounts' = EmptyMap
    /\ pc' = "idle"
    /\ UNCHANGED <<env_home, fs, dirs, call, ssh_key, err, disk0, pre, procs,
                   steps, calls, sshLog>>

\* variant: an unset $HOME falls back to the root directory
MainNoHomeFallback ==
    /\ pc = "start"
    /\ env_home = NoHome
    /\ home_dir' = "/"
    /\ accounts' = EmptyMap
    /\ pc' = "idle"
    /\ UNCHANGED <<env_home, fs, dirs, call, ssh_key, err, disk0, pre, procs,
                   steps, calls, sshLog>>

\* main, $HOME unset: var("HOME").expect(..) panics
MainNoHome ==
    /\ pc = "start"
    /\ env_home = NoHome
    /\ Panic("$HOME directory not found")
    /\ UNCHANGED <<env_home, home_dir, accounts, fs, dirs, call, ssh_key,
                   disk0, pre, procs, steps, calls, sshLog>>

\* entry of setup_account(name, email, codebase_dir, host)
SetupAccount(name, email, codebase_dir, host) ==
    /\ pc = "idle"
    /\ Len(calls) < MaxCalls
    /\ call' = [name |-> name, email |-> email,
                codebase_dir |-> codebase_dir, host |-> host]
    /\ calls' = Append(calls, call')
    /\ pre' = [fs |-> fs, accounts |-> accounts]
    /\ steps' = <<>>
    /\ ssh_key' = ""
    /\ pc' = SetupAccountSteps[1]
    /\ UNCHANGED <<env_home, home_dir, accounts, fs, dirs, err, disk0, procs,
                   sshLog>>

\* generate_ssh_key(name, email), and the unwrap of its result
GenerateSshKey ==
    /\ pc = "generate_ssh_key"
    /\ LET ssh_dir == Join(home_dir, ".ssh")
           key_file_str == KeyFile(home_dir, call.name)
       IN \E status \in ExitCodes :
            /\ dirs' = dirs \cup {ssh_dir}
            /\ procs' = Append(procs, [cmd |-> "ssh-keygen",
                                       arg |-> key_file_str,
                                       status |-> status])
            /\ steps' = Append(steps, "generate_ssh_key")
            /\ IF KeygenFailed(status)
               THEN /\ Panic("Failed to generate SSH key")
                    /\ UNCHANGED <<fs, ssh_key>>
               ELSE /\ fs' = WriteFile(WriteFile(fs, key_file_str,
                                                 "ed25519 private key"),
                                       key_file_str \o ".pub",
                                       "ssh-ed25519 " \o call.email)
                    /\ ssh_key' = key_file_str
                    /\ pc' = StepAfter("generate_ssh_key")
                    /\ UNCHANGED err
    /\ UNCHANGED <<env_home, home_dir, accounts, call, disk0, pre, calls,
                   sshLog>>

\* add_ssh_agent(&ssh_key), and the unwrap of its result
AddSshAgent ==
    /\ pc = "add_ssh_agent"
    /\ \E status \in ExitCodes :
         /\ procs' = Append(procs, [cmd |-> "ssh-add", arg |-> ssh_key,
                                    status |-> status])
         /\ steps' = Append(steps, "add_ssh_agent")
         /\ IF AgentFailed(status)
            THEN Panic("Failed to add SSH key to agent")
            ELSE /\ pc' = StepAfter("add_ssh_agent")
                 /\ UNCHANGED err
    /\ UNCHANGED <<env_home, home_dir, accounts, fs, dirs, call, ssh_key,
                   disk0, pre, calls, sshLog>>

\* add_account(name, email, &ssh_key, home_dir.join(codebase_dir))
AddAccount ==
    /\ pc = "add_account"
    /\ accounts' = Insert(accounts, call.name,
                          [name |-> call.name,
                           email |-> call.email,
                           ssh_key |-> ssh_key,
                           codebase_dir_path |-> Join(home_dir, call.codebase_dir)])
    /\ steps' = Append(steps, "add_account")
    /\ pc' = StepAfter("add_account")
    /\ UNCHANGED <<env_home, home_dir, fs, dirs, call, ssh_key, err, disk0,
                   pre, procs, calls, sshLog>>

\* associate_account_with_dir, first half: setup_local_gitconfig(account)
SetupLocalGitconfig ==
    /\ pc = "setup_local_gitconfig"
    /\ steps' = Append(steps, "setup_local_gitconfig")
    /\ IF call.name \notin DOMAIN accounts
       THEN /\ Panic("Account not found")
            /\ UNCHANGED <<fs, dirs>>
       ELSE LET account == accounts[call.name]
                gitconfig_path == LocalGitconfigPath(account)
            IN /\ dirs' = dirs \cup {Parent(gitconfig_path)}
               /\ fs' = AppendFile(fs, gitconfig_path,
                                   LocalConfigContent(account))
               /\ pc' = StepAfter("setup_local_gitconfig")
               /\ UNCHANGED err
    /\ UNCHANGED <<env_home, home_dir, accounts, call, ssh_key, disk0, pre,
                   procs, calls, sshLog>>

\* associate_account_with_dir, second half: setup_global_gitconfig(cb, gc)
SetupGlobalGitconfig ==
    /\ pc = "setup_global_gitconfig"
    /\ steps' = Append(steps, "setup_global_gitconfig")
    /\ IF call.name \notin DOMAIN accounts
       THEN /\ Panic("Account not found")
            /\ UNCHANGED fs
       ELSE LET account == accounts[call.name]
            IN /\ fs' = AppendFile(fs, GlobalGitconfigPath(home_dir),
                                   IncludeIfContent(account.codebase_dir_path,
                                                    LocalGitconfigPath(account)))
               /\ pc' = StepAfter("setup_global_gitconfig")
               /\ UNCHANGED err
    /\ UNCHANGED <<env_home, home_dir, accounts, dirs, call, ssh_key, disk0,
                   pre, procs, calls, sshLog>>

\* setup_ssh_config(name, host)
SetupSshConfig ==
    /\ pc = "setup_ssh_config"
    /\ steps' = Append(steps, "setup_ssh_config")
    /\ IF call.name \notin DOMAIN accounts
       THEN /\ Panic("Account not found")
            /\ UNCHANGED <<fs, sshLog>>
       ELSE LET ssh_config_path == SshConfigPath(home_dir)
                account == accounts[call.name]
                config_content == SshConfigContent(call.host, account.ssh_key)
                existing_config == IF ssh_config_path \in DOMAIN fs
                                   THEN fs[ssh_config_path] ELSE ""
            IN /\ fs' = IF ~HostPresent(existing_config, call.host)
                        THEN AppendFile(fs, ssh_config_path, config_content)
                        ELSE fs
               /\ sshLog' = Append(sshLog,
                                   [name |-> call.name, host |-> call.host,
                                    before |-> ReadOpt(fs, ssh_config_path),
                                    after |-> ReadOpt(fs', ssh_config_path)])
               /\ pc' = StepAfter("setup_ssh_config")
               /\ UNCHANGED err
    /\ UNCHANGED <<env_home, home_dir, accounts, dirs, call, ssh_key, disk0,
                   pre, procs, calls>>

\* main returns Ok(())
MainReturn ==
    /\ pc = "idle"
    /\ pc' = "exited"
    /\ UNCHANGED <<env_home, home_dir, accounts, fs, dirs, call, ssh_key, err,
                   disk0, pre, procs, steps, calls, sshLog>>

Next ==
    \/ MainNew
    \/ MainNoHome
    \/ \E name \in Names, email \in Emails, codebase_dir \in CodebaseDirs,
          host \in Hosts : SetupAccount(name, email, codebase_dir, host)
    \/ GenerateSshKey
    \/ AddSshAgent
    \/ AddAccount
    \/ SetupLocalGitconfig
    \/ SetupGlobalGitconfig
    \/ SetupSshConfig
    \/ MainReturn

Spec == Init /\ [][Next]_vars

-----------------------------------------------------------------------------
TypeOK ==
    /\ pc \in {"start", "idle", "panicked", "exited"}
              \cup {SetupAccountSteps[i] : i \in 1..Len(SetupAccountSteps)}
    /\ Len(calls) <= MaxCalls
    /\ DOMAIN accounts \subseteq Names

-----------------------------------------------------------------------------
(* Vocabulary of the properties *)

\* number of occurrences of t in s
Count(s, t) ==
    Cardinality({i \in 0..(Len(s) - Len(t)) : SubSeq(s, i + 1, i + Len(t)) = t})

IsPrefix(old, new) == Len(old) <= Len(new) /\ SubSeq(new, 1, Len(old)) = old

Content(f, p) == IF p \in DOMAIN f THEN f[p] ELSE ""

\* the three configuration files a call with arguments c may write
CallLocalPath(c) == Join(Join(home_dir, c.codebase_dir), ".gitconfig")
ConfigPaths(c) ==
    {CallLocalPath(c), GlobalGitconfigPath(home_dir), SshConfigPath(home_dir)}

ConfigsAsBeforeCall ==
    \A p \in ConfigPaths(call) : ReadOpt(fs, p) = ReadOpt(pre.fs, p)

Finished == pc \in {"idle", "exited"} /\ calls # <<>>

\* calls whose add_account step has been performed
Recorded ==
    {i \in 1..Len(calls) :
        \/ i < Len(calls)
        \/ \E k \in 1..Len(steps) : steps[k] = "add_account"}

SameCalls == \A i \in 1..Len(calls) : calls[i] = calls[1]

DistinctHosts ==
    \A i, j \in 1..Len(calls) : i # j => calls[i].host # calls[j].host

-----------------------------------------------------------------------------
(* C1 *)

\* C1: when ssh-keygen exits non-zero the program stops with the
\* key-generation error, nothing is invoked after it (no ssh-add), the
\* registry is as it was when the call began, and the local Git config, the
\* global Git config and the SSH config are as they were when the call began.
C1_KeygenFailureAborts ==
    \A i \in 1..Len(procs) :
        (procs[i].cmd = "ssh-keygen" /\ procs[i].status # 0) =>
            /\ pc = "panicked"
            /\ err = "Failed to generate SSH key"
            /\ i = Len(procs)
            /\ accounts = pre.accounts
            /\ ConfigsAsBeforeCall

C1_Witness ==
    /\ pc = "panicked"
    /\ Len(calls) = 2
    /\ accounts # EmptyMap
    /\ procs[Len(procs)].cmd = "ssh-keygen"
    /\ procs[Len(procs)].status # 0

-----------------------------------------------------------------------------
(* C2 *)

\* C2: of two setup_ssh_config calls made one after the other with the same
\* host, the second leaves ~/.ssh/config exactly as the first left it, and
\* the first either left the file alone or appended the Host block once.
C2_SshConfigIdempotent ==
    \A i \in 1..(Len(sshLog) - 1) :
        (/\ sshLog[i + 1].host = sshLog[i].host
         /\ sshLog[i + 1].before = sshLog[i].after) =>
            /\ sshLog[i + 1].after = sshLog[i + 1].before
            /\ \/ sshLog[i].after = sshLog[i].before
               \/ sshLog[i].after =
                    <<(IF sshLog[i].before = <<>> THEN "" ELSE sshLog[i].before[1])
                      \o SshConfigContent(sshLog[i].host,
                                          KeyFile(home_dir, sshLog[i].name))>>

C2_Witness ==
    /\ Len(sshLog) = 2
    /\ sshLog[2].host = sshLog[1].host
    /\ sshLog[1].after # sshLog[1].before
    /\ sshLog[2].before = sshLog[1].after
    /\ sshLog[2].name # sshLog[1].name

-----------------------------------------------------------------------------
(* C3 *)

\* C3: after a completed setup_account call the local and the global Git
\* config files exist, are strictly longer than when the call began, and
\* begin with the content they had when the call began.
C3_GitConfigAppendOnly ==
    Finished =>
        \A p \in {CallLocalPath(call), GlobalGitconfigPath(home_dir)} :
            /\ p \in DOMAIN fs
            /\ Len(fs[p]) > Len(Content(pre.fs, p))
            /\ IsPrefix(Content(pre.fs, p), fs[p])

C3_Witness ==
    /\ Finished
    /\ CallLocalPath(call) # GlobalGitconfigPath(home_dir)
    /\ Len(Content(pre.fs, CallLocalPath(call))) > 0
    /\ Len(Content(pre.fs, GlobalGitconfigPath(home_dir))) > 0

-----------------------------------------------------------------------------
(* C4 *)

\* the local block as well-formed INI: no character after the email
WellFormedLocalBlock(name, email) ==
    "[url \"git@github.com-" \o name \o ":\"]\n"
    \o "    insteadOf = git@github.com:\n"
    \o "[user]\n"
    \o "    name = " \o name \o "\n"
    \o "    email = " \o email \o "\n"

\* C4: after one completed setup_account call on a fresh home, the local
\* Git config (a file other than the global one) is exactly one block with
\* the URL rewrite rule and a [user] section whose email line ends right
\* after the email.
C4_LocalConfigWellFormed ==
    (/\ Finished
     /\ disk0 = FreshDisk
     /\ Len(calls) = 1
     /\ CallLocalPath(call) # GlobalGitconfigPath(home_dir)) =>
        Content(fs, CallLocalPath(call)) =
            WellFormedLocalBlock(call.name, call.email)

-----------------------------------------------------------------------------
(* C5 *)

\* C5: with $HOME unset the program does nothing but panic with the
\* environment error: no subprocess is invoked and no file or directory is
\* created or written.
C5_MissingHomeFailsFirst ==
    env_home = NoHome =>
        /\ pc \in {"start", "panicked"}
        /\ pc = "panicked" => err = "$HOME directory not found"
        /\ procs = <<>>
        /\ fs = disk0.fs
        /\ dirs = disk0.dirs
        /\ calls = <<>>

C5_Witness ==
    /\ env_home = NoHome
    /\ pc = "panicked"
    /\ disk0 = PopulatedDisk

-----------------------------------------------------------------------------
(* C6 *)

ClaimedOrder ==
    <<"generate_ssh_key", "add_ssh_agent", "add_account",
      "setup_local_gitconfig", "setup_global_gitconfig", "setup_ssh_config">>

\* C6: the steps a setup_account call has performed are always an initial
\* part of: generate key, register with agent, record account, local Git
\* config, global Git config, SSH config; a step is about to run only when
\* exactly the steps before it have run, and a completed call has run all
\* six once.
C6_FixedStepOrder ==
    /\ Len(steps) <= Len(ClaimedOrder)
    /\ \A i \in 1..Len(steps) : steps[i] = ClaimedOrder[i]
    /\ \A k \in 1..Len(ClaimedOrder) :
          pc = ClaimedOrder[k] => Len(steps) = k - 1
    /\ Finished => steps = ClaimedOrder
    /\ \A k \in 1..Len(steps) :
          /\ (steps[k] = "add_ssh_agent" =>
                /\ procs # <<>>
                /\ procs[Len(procs)].cmd = "ssh-add"
                /\ procs[Len(procs)].arg = KeyFile(home_dir, call.name))
          /\ (steps[k] = "add_account" =>
                /\ procs[Len(procs)].status = 0
                /\ call.name \in DOMAIN accounts)

C6_Witness ==
    /\ Finished
    /\ Len(calls) = 2
    /\ steps = ClaimedOrder

-----------------------------------------------------------------------------
(* C7 *)

\* C7: when ssh-add exits non-zero the program stops with the
\* agent-registration error, the two key files of step 1 are on disk, the
\* registry is as it was when the call began, and none of the three config
\* files has changed since the call began.
C7_AgentFailureAborts ==
    \A i \in 1..Len(procs) :
        (procs[i].cmd = "ssh-add" /\ procs[i].status # 0) =>
            /\ pc = "panicked"
            /\ err = "Failed to add SSH key to agent"
            /\ i = Len(procs)
            /\ KeyFile(home_dir, call.name) \in DOMAIN fs
            /\ (KeyFile(home_dir, call.name) \o ".pub") \in DOMAIN fs
            /\ accounts = pre.accounts
            /\ ConfigsAsBeforeCall

C7_Witness ==
    /\ pc = "panicked"
    /\ Len(calls) = 2
    /\ procs[Len(procs)].cmd = "ssh-add"
    /\ procs[Len(procs)].status # 0
    /\ call.name \notin DOMAIN accounts
    /\ KeyFile(home_dir, call.name) \notin DOMAIN disk0.fs

-----------------------------------------------------------------------------
(* C8 *)

\* C8: the registry holds exactly the names of the calls that reached
\* add_account, each entry sits under its own name, and carries the email,
\* key path and codebase directory of the latest such call with that name.
C8_RegistryLastWriteWins ==
    /\ DOMAIN accounts = {calls[i].name : i \in Recorded}
    /\ \A n \in DOMAIN accounts :
          LET mine == {i \in Recorded : calls[i].name = n}
              last == CHOOSE i \in mine : \A j \in mine : j <= i
          IN accounts[n] =
                [name |-> n,
                 email |-> calls[last].email,
                 ssh_key |-> KeyFile(home_dir, n),
                 codebase_dir_path |-> Join(home_dir, calls[last].codebase_dir)]

C8_Witness ==
    /\ Finished
    /\ Len(calls) = 2
    /\ calls[1].name = calls[2].name
    /\ calls[1].email # calls[2].email
    /\ calls[1].codebase_dir # calls[2].codebase_dir

-----------------------------------------------------------------------------
(* C9 *)

\* C9: after n completed setup_account calls with the same arguments on a
\* fresh home, the local Git config holds n local blocks, the global Git
\* config holds n includeIf stanzas, and the SSH config holds one Host block.
C9_GitConfigDuplicatedSshNot ==
    (Finished /\ disk0 = FreshDisk /\ SameCalls) =>
        LET n == Len(calls)
            account == accounts[call.name]
        IN /\ Count(Content(fs, CallLocalPath(call)),
                    LocalConfigContent(account)) = n
           /\ Count(Content(fs, GlobalGitconfigPath(home_dir)),
                    IncludeIfContent(account.codebase_dir_path,
                                     CallLocalPath(call))) = n
           /\ Count(Content(fs, SshConfigPath(home_dir)),
                    "Host " \o call.host) = 1
           /\ Content(fs, SshConfigPath(home_dir)) =
                SshConfigContent(call.host, account.ssh_key)

C9_Witness ==
    /\ Finished
    /\ disk0 = FreshDisk
    /\ Len(calls) = 2
    /\ SameCalls

-----------------------------------------------------------------------------
(* C10 *)

\* C10: after completed setup_account calls with pairwise distinct hosts on
\* a fresh home, the SSH config holds, for every call, the block that starts
\* with the line 'Host <host>' and names the registered key of the account.
C10_EveryHostHasBlock ==
    (Finished /\ disk0 = FreshDisk /\ DistinctHosts) =>
        \A i \in 1..Len(calls) :
            Contains(Content(fs, SshConfigPath(home_dir)),
                     SshConfigContent(calls[i].host,
                                      accounts[calls[i].name].ssh_key))

====
